---- MODULE Spec2Model ----
(***************************************************************************)
(* TDL-GUI: the subprocess output parser and progress state machine        *)
(* (src/worker.py, class Worker), the runner that hands out Workers        *)
(* (src/tdl_runner.py, class TdlRunner) and the download tab that consumes *)
(* the Worker's per-file signals (src/download_tab.py, class DownloadTab). *)
(*                                                                         *)
(* A line of child output is a sequence of whitespace-separated tokens; a  *)
(* token is a sequence of one-character (or one-word) strings.  The four   *)
(* regular expressions of worker.py are operators over such lines.         *)
(***************************************************************************)
EXTENDS Integers, Sequences, FiniteSets, TLC

\* ------------------------------------------------------------ bounds
MaxWorkers == 2      \* Worker objects constructed in one behaviour
MaxLines == 2        \* lines a Worker's children print in one behaviour of SpecWorker
MaxAppLines == 1     \* lines all children print in one behaviour of Spec
MaxCommands == 2     \* commands of a directly constructed Worker
MaxReads == 2        \* reads of the login reader that return output
MaxInputs == 1       \* inputs the dialog submits to one LoginWorker

Workers == 1..MaxWorkers
None == 0

\* ------------------------------------------------------------ tokens
Digits == {"0", "1", "2", "3", "4", "5", "6", "7", "8", "9"}

Ellipsis == <<".", ".", ".">>
DoneWord == <<"done!">>

\* positions of the token/char c in the sequence s
Positions(s, c) == {p \in 1..Len(s) : s[p] = c}

Min(S) == CHOOSE x \in S : \A y \in S : x <= y

\* a token of the shape [ ... ]
Bracketed(t) == Len(t) >= 2 /\ t[1] = "[" /\ t[Len(t)] = "]"
Inner(t) == SubSeq(t, 2, Len(t) - 1)

\* '.+? in .+?' : a non-empty part, the word in, a non-empty part
IsSizeInfo(s) == \E p \in Positions(s, "in") : 1 < p /\ p < Len(s)

\* '\[(?P<size_info>.+? in .+?);\s*(?P<speed>.+?)\]' : the lazy groups end at
\* the first ';' after which the rest is non-empty
SizeSpeedSplits(t) ==
    IF ~Bracketed(t) THEN {}
    ELSE {p \in Positions(Inner(t), ";") :
            /\ IsSizeInfo(SubSeq(Inner(t), 1, p - 1))
            /\ p < Len(Inner(t))}

\* '\[(?P<size_info>.+? in .+?);\s*~?ETA:\s*(?P<eta>.+?);\s*(?P<speed>.+?)\]'
EtaSplits(t) ==
    IF ~Bracketed(t) THEN {}
    ELSE {pq \in Positions(Inner(t), ";") \X Positions(Inner(t), ";") :
            /\ IsSizeInfo(SubSeq(Inner(t), 1, pq[1] - 1))
            /\ pq[1] + 1 <= Len(Inner(t))
            /\ Inner(t)[pq[1] + 1] = "ETA:"
            /\ pq[1] + 2 < pq[2]
            /\ pq[2] < Len(Inner(t))}

\* '[\d\.]+%'
IsPercentToken(t) ==
    /\ Len(t) >= 2
    /\ t[Len(t)] = "%"
    /\ \A p \in 1..(Len(t) - 1) : t[p] \in Digits \cup {"."}

\* ------------------------------------------------------------ TDL_DONE_RE
\* index of the ellipsis token that ends the (lazy) file_id group, or 0
DoneEllipsis(line) ==
    LET ks == {k \in 2..Len(line) :
                 /\ line[k] = Ellipsis
                 /\ k + 2 <= Len(line)
                 /\ line[k + 1] = DoneWord
                 /\ SizeSpeedSplits(line[k + 2]) # {}}
    IN IF ks = {} THEN 0 ELSE Min(ks)

TDL_DONE_RE(line) == DoneEllipsis(line) # 0

\* ------------------------------------------------------------ TDL_IN_PROGRESS_RE
\* the percent token, an optional bracketed bar, then the size/ETA/speed bracket
ProgressTail(line, k) ==
    /\ k + 2 <= Len(line)
    /\ IsPercentToken(line[k + 1])
    /\ \/ EtaSplits(line[k + 2]) # {}
       \/ /\ k + 3 <= Len(line)
          /\ Bracketed(line[k + 2])
          /\ EtaSplits(line[k + 3]) # {}

ProgressEllipsis(line) ==
    LET ks == {k \in 2..Len(line) : line[k] = Ellipsis /\ ProgressTail(line, k)}
    IN IF ks = {} THEN 0 ELSE Min(ks)

TDL_IN_PROGRESS_RE(line) == ProgressEllipsis(line) # 0

\* ------------------------------------------------------------ TDL_OVERALL_RE
\* '#+\.*' : one or more '#', then zero or more '.'
IsBar(s) ==
    /\ Len(s) >= 1
    /\ s[1] = "#"
    /\ \A p \in 1..Len(s) : s[p] \in {"#", "."}
    /\ \A p \in 1..(Len(s) - 1) : s[p] = "." => s[p + 1] = "."

\* '\[(?P<time>.+?);\s*(?P<speed>.+?)\]'
TimeSpeedSplits(t) ==
    IF ~Bracketed(t) THEN {}
    ELSE {p \in Positions(Inner(t), ";") : 1 < p /\ p < Len(Inner(t))}

TDL_OVERALL_RE(line) ==
    /\ Len(line) >= 2
    /\ Bracketed(line[1])
    /\ IsBar(Inner(line[1]))
    /\ TimeSpeedSplits(line[2]) # {}

\* ------------------------------------------------------------ TDL_STATS_RE
IsNumberToken(t) == Len(t) >= 1 /\ \A p \in 1..Len(t) : t[p] \in Digits \cup {"."}
IsDigitsToken(t) == Len(t) >= 1 /\ \A p \in 1..Len(t) : t[p] \in Digits

\* search() is not anchored: the seven tokens may start anywhere in the line
TDL_STATS_RE(line) ==
    \E k \in 1..Len(line) :
        /\ k + 6 <= Len(line)
        /\ line[k] = <<"CPU:">>
        /\ IsPercentToken(line[k + 1])
        /\ line[k + 2] = <<"Memory:">>
        /\ IsNumberToken(line[k + 3])
        /\ Len(line[k + 4]) >= 1
        /\ line[k + 5] = <<"Goroutines:">>
        /\ IsDigitsToken(line[k + 6])


\* ------------------------------------------------------------ child output
FileIds == {<<"A">>, <<"B">>}

SizeSpeedBracket == <<"[", "8.00", "MB", "in", "10s", ";", "800KB/s", "]">>
EtaBracket == <<"[", "4.00", "MB", "in", "5s", ";", "ETA:", "5s", ";", "800KB/s", "]">>

DoneLine(id) == <<id, Ellipsis, DoneWord, SizeSpeedBracket>>
ProgressLine(id) == <<id, Ellipsis, <<"5", "0", ".", "0", "%">>, EtaBracket>>
BadPercentLine(id) == <<id, Ellipsis, <<"1", ".", "2", ".", "3", "%">>, EtaBracket>>
OverallLine == << <<"[", "#", "#", ".", ".", "]">>, <<"[", "1m26s", ";", "1.17", "MB/s", "]">> >>
StatsLine == << <<"CPU:">>, <<"3", ".", "1", "%">>, <<"Memory:">>, <<"3", "1">>, <<"MB">>,
                <<"Goroutines:">>, <<"5", "4">> >>
PlainLine == << <<"panic:">>, <<"invalid">>, <<"expression">> >>
BlankLine == <<>>

\* the lines a child process may print
OutputLines ==
    {DoneLine(id) : id \in FileIds} \cup {ProgressLine(<<"A">>), BadPercentLine(<<"A">>)}
    \cup {OverallLine, PlainLine}

\* ------------------------------------------------------------ lines for the classifier
MaxBar == 50         \* markers in the bar of an overall progress line

TimeSpeedBracket == <<"[", "1m26s", ";", "1.17", "MB/s", "]">>
Markers(n, c) == [p \in 1..n |-> c]

\* '[###...] [1m26s; 1.17 MB/s]' with f filled and e empty markers
BarLine(f, e) ==
    << <<"[">> \o Markers(f, "#") \o Markers(e, ".") \o <<"]">>, TimeSpeedBracket >>
BarLines ==
    {BarLine(fe[1], fe[2]) :
        fe \in {x \in (0..MaxBar) \X (0..MaxBar) : x[1] + x[2] <= MaxBar}}

\* 'A ... 50.0% [8.00 MB in 10s; 800KB/s]' : a progress line without the ETA field
NoEtaLine(id) == <<id, Ellipsis, <<"5", "0", ".", "0", "%">>, SizeSpeedBracket>>

\* a completion line behind cursor-up and erase-line control sequences
AnsiDoneLine(id) == << <<"ESC[A", "ESC[K">> \o id, Ellipsis, DoneWord, SizeSpeedBracket >>

\* lines that satisfy more than one grammar
OverlapLines ==
    {ProgressLine(<<"A">>) \o DoneLine(<<"B">>),
     DoneLine(<<"A">>) \o StatsLine,
     ProgressLine(<<"A">>) \o StatsLine,
     OverallLine \o StatsLine,
     OverallLine \o Tail(ProgressLine(<<"A">>))}

\* the lines given to the classifier on its own
ClassifyLines ==
    OutputLines \cup {StatsLine, BlankLine} \cup BarLines \cup OverlapLines
    \cup {NoEtaLine(<<"A">>), AnsiDoneLine(<<"A">>)}

\* exit codes a child may end with
ExitCodes == {0, 2}

\* ------------------------------------------------------------ state
VARIABLES
    runner_worker,      \* TdlRunner.worker: None or a Worker
    created,            \* number of Worker objects constructed so far
    worker,             \* the Worker objects: fields of class Worker, the state of
                        \* its QThread and of its child, and its position in run()
    stop_pc,            \* the Worker whose stop() the main thread is inside, or None
    queue,              \* queued signal deliveries to the main thread, FIFO
    progress_widgets,   \* keys of DownloadTab.progress_widgets
    task_finished_seen, \* Workers whose taskFinished a subscriber has received
    lines_left,         \* lines the children will still print in this behaviour
    tab,                \* DownloadTab: its buttons and inputs, has_started_download
    settings,           \* what settings_manager.get returns, and the system proxy
    login               \* the LoginWorker: its fields, its child and its threads

vars == <<runner_worker, created, worker, stop_pc, queue, progress_widgets,
          task_finished_seen, lines_left, tab, settings, login>>

Event(sig, id, code, log) == [sig |-> sig, id |-> id, code |-> code, log |-> log]

PerFileSignals == {"downloadStarted", "downloadProgress", "downloadFinished"}
ClassifiedSignals == PerFileSignals \cup {"overallProgress", "statsUpdated"}

\* a Worker that has not been constructed yet
NoWorker ==
    [ thread |-> "absent",       \* QThread: absent / new / running / finished
      connected |-> FALSE,       \* its signals are connected to the DownloadTab
      data_receivers |-> FALSE,  \* receivers(taskData) > 0
      commands |-> <<>>,
      is_stopped |-> FALSE,      \* _is_stopped
      seen_files |-> {},
      process |-> "none",        \* self.process and the state of that child
      returncode |-> 0,          \* exit status of the child once it has exited
      timeout |-> None,          \* self.timeout: seconds, or None for no limit
      pc |-> "idle",             \* position of the thread in run()
      i |-> 1,                   \* index of the command being run (1-based)
      overall_return_code |-> 0,
      full_log |-> <<>>,
      raw_output |-> <<>>,
      raw_line |-> <<>>,         \* the line under classification
      events |-> <<>>,           \* every signal emitted so far, in order
      finished_seen |-> {},      \* ids whose downloadFinished slot has run
      stop_mark |-> -1,          \* Len(events) when _is_stopped was set, or -1
      stop_at |-> "",            \* pc of the thread when _is_stopped was set
      late_lines |-> 0,          \* lines classified after _is_stopped was set
      classified |-> <<>>,       \* every line classified so far, in order
      spawned |-> 0 ]            \* children Popen has started so far

\* ------------------------------------------------------------ DownloadTab widgets
\* self.controls (download_tab.py:73-83)
Controls == {"source_input", "load_from_file_button", "clear_source_button",
             "dest_path_input", "browse_dest_button", "advanced_settings_button",
             "resume_download_button"}

\* DownloadTab.__init__ and _init_ui: every widget enabled but the resume button
TabInit ==
    [ enabled |-> [c \in Controls |-> c # "resume_download_button"],
      start_enabled |-> TRUE,            \* start_download_button.isEnabled()
      start_text |-> "Start Download",   \* start_download_button.text()
      has_started_download |-> FALSE,
      is_running |-> FALSE ]             \* argument of the last set_running_state

\* ------------------------------------------------------------ settings
\* the defaults the callers pass to settings_manager.get, and no system proxy
DefaultSettings ==
    [ debug_mode |-> FALSE,
      auto_proxy |-> TRUE,
      system_proxy |-> "",               \* urllib.request.getproxies(), https or http
      manual_proxy |-> "",
      storage_driver |-> "bolt",
      storage_path |-> "",
      namespace |-> "default",
      ntp_server |-> "",
      reconnect_timeout |-> "5m" ]

\* ------------------------------------------------------------ LoginWorker.__init__
LoginWorkerInit(mode, platform) ==
    [ mode |-> mode,
      platform |-> platform,             \* sys.platform
      pty_process |-> "none",            \* none / alive / exited
      exitstatus |-> 0,
      is_stopped |-> FALSE,              \* _is_stopped
      login_success_emitted |-> FALSE,   \* _login_success_emitted
      pc |-> "idle",                     \* position of the thread in run()
      reader |-> "none",                 \* the output thread: none / test / read / done
      scan_seen |-> FALSE,               \* "Scan QR code" is in the reader's buffer
      reads |-> 0,                       \* reads that returned output
      inputs |-> 0,                      \* send_input calls
      events |-> <<>> ]                  \* signals emitted so far, in order

Init ==
    /\ tab = TabInit
    /\ settings = DefaultSettings
    /\ login = LoginWorkerInit("code", "win32")
    /\ runner_worker = None
    /\ created = 0
    /\ worker = [w \in Workers |-> NoWorker]
    /\ stop_pc = None
    /\ queue = <<>>
    /\ progress_widgets = {}
    /\ task_finished_seen = {}
    /\ lines_left = MaxAppLines

\* ------------------------------------------------------------ Worker.__init__
\* the default of the 'command_timeout' setting, in seconds
command_timeout == 300

\* the timeout argument a caller may pass to Worker(...)
Timeouts == {-1, 0, command_timeout}

\* 'self.timeout = timeout if timeout > 0 else None'
Timeout(t) == IF t > 0 THEN t ELSE None

\* 'if not isinstance(commands[0], list): commands = [commands]' is applied by
\* the callers below: cmds is always the list of commands
WorkerInit(cmds, conn, data) ==
    [NoWorker EXCEPT !.thread = "new", !.commands = cmds,
                     !.connected = conn, !.data_receivers = data,
                     !.timeout = Timeout(command_timeout)]

\* ------------------------------------------------------------ TdlRunner
is_running ==
    /\ runner_worker # None
    /\ worker[runner_worker].thread = "running"

\* [self.tdl_path] + base_command (global flags at their defaults)
RunnerCommand == <<"tdl", "download">>

tdl_path == "tdl"

\* str.strip() on the values a setting takes here
Strip(str) ==
    CASE str = " " -> ""
      [] str = " /p " -> "/p"
      [] OTHER -> str

\* f"type={driver},path={path}"
StorageStr(driver, path) ==
    CASE driver = "bolt" /\ path = "/p" -> "type=bolt,path=/p"
      [] driver = "file" /\ path = "/p" -> "type=file,path=/p"
      [] OTHER -> "type=,path="

_get_proxy_args(st) ==
    IF st.auto_proxy
    THEN (IF st.system_proxy # "" THEN <<"--proxy", st.system_proxy>> ELSE <<>>)
    ELSE IF st.manual_proxy # "" THEN <<"--proxy", st.manual_proxy>>
    ELSE <<>>

_get_storage_args(st) ==
    LET path == Strip(st.storage_path)
    IN IF path = "" THEN <<>>
       ELSE <<"--storage", StorageStr(st.storage_driver, path)>>

_get_namespace_args(st) ==
    IF st.namespace # "" /\ st.namespace # "default"
    THEN <<"--ns", st.namespace>> ELSE <<>>

_get_ntp_args(st) ==
    LET ntp_server == Strip(st.ntp_server)
    IN IF ntp_server # "" THEN <<"--ntp", ntp_server>> ELSE <<>>

_get_reconnect_timeout_args(st) ==
    LET reconnect_timeout == Strip(st.reconnect_timeout)
    IN IF reconnect_timeout # "" /\ reconnect_timeout # "5m" /\ reconnect_timeout # "0s"
       THEN <<"--reconnect-timeout", reconnect_timeout>> ELSE <<>>

\* the namespace flag put before the storage flag
CommandNsFirst(base_command, st) ==
    <<tdl_path>> \o base_command
        \o (IF st.debug_mode THEN <<"--debug">> ELSE <<>>)
        \o _get_proxy_args(st)
        \o _get_namespace_args(st)
        \o _get_storage_args(st)
        \o _get_ntp_args(st)
        \o _get_reconnect_timeout_args(st)

\* tdl_runner.py:67-76: the command TdlRunner.run builds
Command(base_command, st) ==
    <<tdl_path>> \o base_command
        \o (IF st.debug_mode THEN <<"--debug">> ELSE <<>>)
        \o _get_proxy_args(st)
        \o _get_storage_args(st)
        \o _get_namespace_args(st)
        \o _get_ntp_args(st)
        \o _get_reconnect_timeout_args(st)

\* the Worker the slot held is unreferenced once 'self.worker = Worker(...)'
\* replaces it; a finished one with no slot call pending is gone
Dropped(w) ==
    /\ w = runner_worker
    /\ worker[w].thread = "finished"
    /\ \A k \in 1..Len(queue) : queue[k].w # w

\* TdlRunner.run: None when a task is running, else a new Worker in the slot
RunnerRunTo(base_command, conn, data, started) ==
    /\ ~is_running
    /\ created < MaxWorkers
    /\ created' = created + 1
    /\ runner_worker' = created + 1
    /\ worker' = [w \in Workers |->
                    IF w = created + 1
                    THEN [WorkerInit(<<Command(base_command, settings)>>, conn, data) EXCEPT
                            !.thread = IF started THEN "running" ELSE "new",
                            !.pc = IF started THEN "for" ELSE "idle"]
                    ELSE IF Dropped(w) THEN NoWorker ELSE worker[w]]

\* a caller obtains a Worker from the runner and keeps it for a later start()
RunnerRun ==
    /\ stop_pc = None
    /\ \/ /\ is_running
          /\ UNCHANGED <<runner_worker, created, worker>>
       \/ RunnerRunTo(<<"download">>, FALSE, FALSE, FALSE)
    /\ UNCHANGED <<stop_pc, queue, progress_widgets, task_finished_seen, lines_left>>
    /\ UNCHANGED <<tab, settings, login>>

\* QThread.start(): isRunning() is true from here until run() has returned
WorkerStart(w) ==
    /\ stop_pc = None
    /\ worker[w].thread = "new"
    /\ worker' = [worker EXCEPT ![w].thread = "running", ![w].pc = "for"]
    /\ UNCHANGED <<runner_worker, created, stop_pc, queue, progress_widgets,
                   task_finished_seen, lines_left>>
    /\ UNCHANGED <<tab, settings, login>>

\* ------------------------------------------------------------ Worker.stop
\* line 212: the flag; the main thread is then inside stop() until StopTerminate
StopFlag(w) ==
    /\ worker' = [worker EXCEPT
            ![w].is_stopped = TRUE,
            ![w].stop_mark = IF worker[w].is_stopped THEN @ ELSE Len(worker[w].events),
            ![w].stop_at = IF worker[w].is_stopped THEN @ ELSE worker[w].pc]
    /\ stop_pc' = w

WorkerStop(w) ==
    /\ stop_pc = None
    /\ worker[w].thread = "running"
    /\ StopFlag(w)
    /\ UNCHANGED <<runner_worker, created, queue, progress_widgets,
                   task_finished_seen, lines_left>>
    /\ UNCHANGED <<tab, settings, login>>

\* lines 213-218: 'if self.process and self.process.poll() is None: terminate()'
StopTerminate ==
    /\ stop_pc # None
    /\ worker' = [worker EXCEPT ![stop_pc].process =
                    IF @ \in {"running", "closed"} THEN "terminated" ELSE @]
    /\ stop_pc' = None
    /\ UNCHANGED <<runner_worker, created, queue, progress_widgets,
                   task_finished_seen, lines_left>>
    /\ UNCHANGED <<tab, settings, login>>

\* TdlRunner.stop
RunnerStop ==
    /\ stop_pc = None
    /\ IF is_running THEN StopFlag(runner_worker)
                     ELSE UNCHANGED <<worker, stop_pc>>
    /\ UNCHANGED <<runner_worker, created, queue, progress_widgets,
                   task_finished_seen, lines_left>>
    /\ UNCHANGED <<tab, settings, login>>

\* ------------------------------------------------------------ DownloadTab
\* handle_download_button with a non-empty source input: stop the running task,
\* or obtain a Worker, connect its signals and start it
HandleDownloadButton ==
    /\ stop_pc = None
    /\ IF is_running
       THEN /\ StopFlag(runner_worker)
            /\ UNCHANGED <<runner_worker, created>>
       ELSE /\ RunnerRunTo(<<"download">>, TRUE, FALSE, TRUE)
            /\ UNCHANGED stop_pc
    /\ tab' = IF is_running THEN tab ELSE [tab EXCEPT !.has_started_download = TRUE]
    /\ UNCHANGED <<queue, progress_widgets, task_finished_seen, lines_left>>
    /\ UNCHANGED <<settings, login>>

\* handle_resume_button: nothing while a task runs, else as the start branch of
\* handle_download_button, with the command 'download --continue'
HandleResumeButton ==
    /\ stop_pc = None
    /\ IF is_running
       THEN UNCHANGED <<runner_worker, created, worker, tab>>
       ELSE /\ RunnerRunTo(<<"download", "--continue">>, TRUE, FALSE, TRUE)
            /\ tab' = [tab EXCEPT !.has_started_download = TRUE]
    /\ UNCHANGED <<stop_pc, queue, progress_widgets, task_finished_seen, lines_left>>
    /\ UNCHANGED <<settings, login>>

\* the start button disabled while a task runs, like the other controls
set_running_state_all(t, is_running_arg) ==
    [t EXCEPT !.enabled = [c \in Controls |-> ~is_running_arg],
              !.start_enabled = ~is_running_arg,
              !.start_text = IF is_running_arg THEN "Stop Download" ELSE "Start Download",
              !.is_running = is_running_arg]

\* DownloadTab.set_running_state (download_tab.py:275-289): the loop over
\* self.controls, the start button, then the resume button
set_running_state(t, is_running_arg) ==
    LET looped == [c \in Controls |-> ~is_running_arg]
        resume == IF ~is_running_arg /\ looped["resume_download_button"]
                  THEN looped["resume_download_button"]
                  ELSE ~is_running_arg
    IN [t EXCEPT !.enabled = [looped EXCEPT !["resume_download_button"] = resume],
                 !.start_enabled = TRUE,
                 !.start_text = IF is_running_arg THEN "Stop Download" ELSE "Start Download",
                 !.is_running = is_running_arg]

\* a call of set_running_state by the owner of the tab
SetRunningState ==
    /\ stop_pc = None
    /\ \E is_running_arg \in BOOLEAN : tab' = set_running_state(tab, is_running_arg)
    /\ UNCHANGED <<runner_worker, created, worker, stop_pc, queue, progress_widgets,
                   task_finished_seen, lines_left, settings, login>>

\* ------------------------------------------------------------ signals
\* the signals DownloadTab connects to slots that change its state
\* (download_tab.py:244-249; overallProgress and statsUpdated are relayed)
TabSignals == PerFileSignals \cup {"taskFinished"}
IsTabSignal(e) == e.sig \in TabSignals

\* emitting from the Worker's thread queues the slot calls on the main thread
Enqueue(w, evs) ==
    IF worker[w].connected
    THEN LET sel == SelectSeq(evs, IsTabSignal)
         IN queue \o [k \in 1..Len(sel) |-> [w |-> w, ev |-> sel[k]]]
    ELSE queue

\* ------------------------------------------------------------ Worker.run
DigitStr(n) == <<"1", "2", "3", "4", "5", "6", "7", "8", "9">>[n]

\* '--- Running task i/n: ... ---'
TaskIntro(n) == << <<"---">>, <<"Running">>, <<"task">>, <<DigitStr(n)>>, <<"---">> >>

TimeoutLine == << <<"[ERROR]">>, <<"Command">>, <<"timed">>, <<"out">> >>
NotFoundLine == << <<"[CRITICAL]">>, <<"Command">>, <<"not">>, <<"found">> >>
UnexpectedLine == << <<"[ERROR]">>, <<"An">>, <<"unexpected">>, <<"error">> >>

\* the three except clauses: append to full_log, -1, taskFailedWithLog, break
Failed(wk, errline) ==
    LET log == Append(wk.full_log, errline)
    IN [wk EXCEPT !.full_log = log,
                  !.overall_return_code = -1,
                  !.events = @ \o <<Event("taskFailedWithLog", <<>>, -1, log)>>,
                  !.pc = "finish"]

\* 'full_log.append(task_intro)' of line 73 left out
ForHeadNoIntro(w) ==
    /\ worker[w].pc = "for"
    /\ worker' = [worker EXCEPT ![w] =
         IF worker[w].i > Len(worker[w].commands) \/ worker[w].is_stopped
         THEN [@ EXCEPT !.pc = "finish"]
         ELSE [@ EXCEPT !.full_log = <<>>,
                        !.raw_output = <<>>,
                        !.pc = "popen"]]
    /\ UNCHANGED <<runner_worker, created, stop_pc, queue, progress_widgets,
                   task_finished_seen, lines_left>>
    /\ UNCHANGED <<tab, settings, login>>

\* seen_files emptied at the start of every command
ForHeadResetsSeen(w) ==
    /\ worker[w].pc = "for"
    /\ worker' = [worker EXCEPT ![w] =
         IF worker[w].i > Len(worker[w].commands) \/ worker[w].is_stopped
         THEN [@ EXCEPT !.pc = "finish"]
         ELSE [@ EXCEPT !.full_log = <<TaskIntro(worker[w].i)>>,
                        !.raw_output = <<>>,
                        !.seen_files = {},
                        !.pc = "popen"]]
    /\ UNCHANGED <<runner_worker, created, stop_pc, queue, progress_widgets,
                   task_finished_seen, lines_left>>
    /\ UNCHANGED <<tab, settings, login>>

\* the flag test of line 63 left out
ForHeadNoFlagCheck(w) ==
    /\ worker[w].pc = "for"
    /\ worker' = [worker EXCEPT ![w] =
         IF worker[w].i > Len(worker[w].commands)
         THEN [@ EXCEPT !.pc = "finish"]
         ELSE [@ EXCEPT !.full_log = <<TaskIntro(worker[w].i)>>,
                        !.raw_output = <<>>,
                        !.pc = "popen"]]
    /\ UNCHANGED <<runner_worker, created, stop_pc, queue, progress_widgets,
                   task_finished_seen, lines_left>>
    /\ UNCHANGED <<tab, settings, login>>

\* lines 62-73: the for statement, the flag check, the fresh logs
ForHead(w) ==
    /\ worker[w].pc = "for"
    /\ worker' = [worker EXCEPT ![w] =
         IF worker[w].i > Len(worker[w].commands) \/ worker[w].is_stopped
         THEN [@ EXCEPT !.pc = "finish"]
         ELSE [@ EXCEPT !.full_log = <<TaskIntro(worker[w].i)>>,
                        !.raw_output = <<>>,
                        !.pc = "popen"]]
    /\ UNCHANGED <<runner_worker, created, stop_pc, queue, progress_widgets,
                   task_finished_seen, lines_left>>
    /\ UNCHANGED <<tab, settings, login>>

\* FileNotFoundError raised only once the child is there
PopenLeavesChild(w) ==
    /\ worker[w].pc = "popen"
    /\ \/ worker' = [worker EXCEPT ![w].process = "running", ![w].pc = "readline",
                                    ![w].spawned = @ + 1]
       \/ worker' = [worker EXCEPT ![w] =
                        Failed([@ EXCEPT !.process = "running"], NotFoundLine)]
       \/ worker' = [worker EXCEPT ![w] = Failed(@, UnexpectedLine)]
    /\ UNCHANGED <<runner_worker, created, stop_pc, queue, progress_widgets,
                   task_finished_seen, lines_left>>
    /\ UNCHANGED <<tab, settings, login>>

\* lines 76-85: subprocess.Popen, which may raise
Popen(w) ==
    /\ worker[w].pc = "popen"
    /\ \/ worker' = [worker EXCEPT ![w].process = "running", ![w].pc = "readline",
                                    ![w].spawned = @ + 1]
       \/ worker' = [worker EXCEPT ![w] = Failed(@, NotFoundLine)]
       \/ worker' = [worker EXCEPT ![w] = Failed(@, UnexpectedLine)]
    /\ UNCHANGED <<runner_worker, created, stop_pc, queue, progress_widgets,
                   task_finished_seen, lines_left>>
    /\ UNCHANGED <<tab, settings, login>>

\* the flag test of line 88 left out
TakeLineNoCheck(wk, line) == [wk EXCEPT !.raw_line = line, !.pc = "process"]

\* lines 87-89: a line was read; 'if self._is_stopped: break'
TakeLine(wk, line) ==
    IF wk.is_stopped
    THEN [wk EXCEPT !.pc = "after"]
    ELSE [wk EXCEPT !.raw_line = line, !.pc = "process"]

\* lines 87-89: readline returns a line the child printed, or '' at end of
\* output (the child exited, closed its output and hangs, or was terminated);
\* then the flag check
ReadLine(w) ==
    /\ worker[w].pc = "readline"
    /\ \/ /\ worker[w].process = "running"
          /\ lines_left > 0
          /\ lines_left' = lines_left - 1
          /\ \E line \in OutputLines :
               worker' = [worker EXCEPT ![w] = TakeLine(@, line)]
       \/ /\ worker[w].process = "running"
          /\ \E code \in ExitCodes :
               worker' = [worker EXCEPT ![w].process = "exited",
                                        ![w].returncode = code,
                                        ![w].pc = "after"]
          /\ UNCHANGED lines_left
       \/ /\ worker[w].process = "running"
          /\ worker' = [worker EXCEPT ![w].process = "closed", ![w].pc = "after"]
          /\ UNCHANGED lines_left
       \/ /\ worker[w].process = "terminated"
          /\ worker' = [worker EXCEPT ![w].pc = "after"]
          /\ UNCHANGED lines_left
    /\ UNCHANGED <<runner_worker, created, stop_pc, queue, progress_widgets,
                   task_finished_seen>>
    /\ UNCHANGED <<tab, settings, login>>

\* float(): digits with at most one '.', and at least one digit
FloatParses(t) ==
    /\ Cardinality(Positions(t, ".")) <= 1
    /\ \E p \in 1..Len(t) : t[p] \in Digits

\* int() of a string of digits
RECURSIVE NatOf(_)
NatOf(ds) ==
    IF ds = <<>> THEN 0
    ELSE 10 * NatOf(SubSeq(ds, 1, Len(ds) - 1))
         + (CHOOSE d \in 0..9 :
              <<"0", "1", "2", "3", "4", "5", "6", "7", "8", "9">>[d + 1] = ds[Len(ds)])

\* a fraction without its trailing zeros
RECURSIVE NoTrailingZeros(_)
NoTrailingZeros(ds) ==
    IF ds # <<>> /\ ds[Len(ds)] = "0"
    THEN NoTrailingZeros(SubSeq(ds, 1, Len(ds) - 1))
    ELSE ds

\* the value float() gives for a string that parses: an integer when the
\* fraction is zero (50.0 == 50), otherwise the whole part and the fraction
FloatOf(t) ==
    LET dots == Positions(t, ".")
        whole == IF dots = {} THEN t ELSE SubSeq(t, 1, Min(dots) - 1)
        frac == IF dots = {} THEN <<>>
                ELSE NoTrailingZeros(SubSeq(t, Min(dots) + 1, Len(t)))
    IN IF frac = <<>> THEN NatOf(whole)
       ELSE [whole |-> NatOf(whole), frac |-> frac]

\* int((hashes / total) * 100) in double arithmetic: the truncation of
\* 100*hashes/total, except where the rounded product falls just below it
\* (the pairs below are all of them for bars of up to 100 markers)
RoundedBelow == {<<29, 50>>, <<29, 100>>, <<57, 100>>, <<58, 100>>}
OverallPercent(bar) ==
    LET hashes == Cardinality(Positions(bar, "#"))
        dots == Cardinality(Positions(bar, "."))
        total == hashes + dots
    IN IF total > 0
       THEN ((100 * hashes) \div total)
            - (IF <<hashes, total>> \in RoundedBelow THEN 1 ELSE 0)
       ELSE 0

\* the seen_files test left out
StartedAlways(wk, id) == <<Event("downloadStarted", id, 0, <<>>)>>

\* lines 105-107 and 127-129
StartedIfNew(wk, id) ==
    IF id \notin wk.seen_files THEN <<Event("downloadStarted", id, 0, <<>>)>> ELSE <<>>

\* a completion line of an id already seen emits nothing
DoneEventsOnce(wk, id) ==
    IF id \notin wk.seen_files
    THEN <<Event("downloadStarted", id, 0, <<>>),
           Event("downloadProgress", id, 100, <<>>),
           Event("downloadFinished", id, 0, <<>>)>>
    ELSE <<>>

\* 'self.downloadProgress.emit(progress_data)' of line 116 left out
DoneEventsNoProgress(wk, id) ==
    StartedIfNew(wk, id) \o <<Event("downloadFinished", id, 0, <<>>)>>

\* lines 116 and 117 in the other order
DoneEventsFinishedFirst(wk, id) ==
    StartedIfNew(wk, id) \o <<Event("downloadFinished", id, 0, <<>>),
                              Event("downloadProgress", id, 100, <<>>)>>

\* lines 105-117: the signals of a completion line
DoneEvents(wk, id) ==
    StartedIfNew(wk, id) \o <<Event("downloadProgress", id, 100, <<>>),
                              Event("downloadFinished", id, 0, <<>>)>>

\* lines 92-165: one line through the classifier; the result is the Worker
\* after the line and the signals it emitted
Classify(wk0) ==
    LET line == wk0.raw_line
        wk == [wk0 EXCEPT !.raw_output = Append(@, line),
                          !.full_log = Append(@, line),
                          !.late_lines = IF wk0.is_stopped THEN @ + 1 ELSE @,
                          !.classified = Append(@, line),
                          !.raw_line = <<>>,
                          !.pc = "readline"]
    IN  IF Len(line) = 0
        THEN [wk |-> [wk0 EXCEPT !.raw_line = <<>>, !.pc = "readline"], evs |-> <<>>]
        ELSE IF TDL_DONE_RE(line) THEN
            LET id == SubSeq(line, 1, DoneEllipsis(line) - 1)
            IN [wk |-> [wk EXCEPT !.seen_files = @ \cup {id}],
                evs |-> DoneEvents(wk, id)]
        ELSE IF TDL_IN_PROGRESS_RE(line) THEN
            LET k == ProgressEllipsis(line)
                id == SubSeq(line, 1, k - 1)
                pct == SubSeq(line[k + 1], 1, Len(line[k + 1]) - 1)
                started == StartedIfNew(wk, id)
                wk1 == [wk EXCEPT !.seen_files = @ \cup {id}]
            IN IF FloatParses(pct)
               THEN [wk |-> wk1,
                     evs |-> started \o <<Event("downloadProgress", id, FloatOf(pct), <<>>)>>]
               ELSE \* ValueError, caught by 'except Exception'
                    LET f == Failed(wk1, UnexpectedLine)
                    IN [wk |-> [f EXCEPT !.events = wk1.events],
                        evs |-> started \o <<f.events[Len(f.events)]>>]
        ELSE IF TDL_OVERALL_RE(line) THEN
            [wk |-> wk,
             evs |-> <<Event("overallProgress", <<>>,
                             OverallPercent(Inner(line[1])), <<>>)>>]
        ELSE IF TDL_STATS_RE(line) THEN
            [wk |-> wk, evs |-> <<Event("statsUpdated", <<>>, 0, <<>>)>>]
        ELSE [wk |-> wk, evs |-> <<>>]

\* the stats search tried before the other three
ProcessLineStatsFirst(w) ==
    /\ worker[w].pc = "process"
    /\ LET c == Classify(worker[w])
           r == IF TDL_STATS_RE(worker[w].raw_line)
                THEN [wk |-> c.wk, evs |-> <<Event("statsUpdated", <<>>, 0, <<>>)>>]
                ELSE c
       IN /\ worker' = [worker EXCEPT ![w] = [r.wk EXCEPT !.events = @ \o r.evs]]
          /\ queue' = Enqueue(w, r.evs)
    /\ UNCHANGED <<runner_worker, created, stop_pc, progress_widgets,
                   task_finished_seen, lines_left>>
    /\ UNCHANGED <<tab, settings, login>>

ProcessLine(w) ==
    /\ worker[w].pc = "process"
    /\ LET r == Classify(worker[w])
       IN /\ worker' = [worker EXCEPT ![w] = [r.wk EXCEPT !.events = @ \o r.evs]]
          /\ queue' = Enqueue(w, r.evs)
    /\ UNCHANGED <<runner_worker, created, stop_pc, progress_widgets,
                   task_finished_seen, lines_left>>
    /\ UNCHANGED <<tab, settings, login>>

\* line 167: the flag check after the read loop
AfterLoop(w) ==
    /\ worker[w].pc = "after"
    /\ worker' = [worker EXCEPT ![w].pc = IF worker[w].is_stopped THEN "finish" ELSE "wait"]
    /\ UNCHANGED <<runner_worker, created, stop_pc, queue, progress_widgets,
                   task_finished_seen, lines_left>>
    /\ UNCHANGED <<tab, settings, login>>

\* the 'break' after a failed command left out: the next command is run
ExitedGoesOn(wk, code) ==
    [wk EXCEPT !.overall_return_code = IF code = 0 THEN @ ELSE code,
               !.events = IF code = 0
                          THEN (IF wk.data_receivers
                                THEN @ \o <<Event("taskData", <<>>, 0, wk.raw_output)>>
                                ELSE @)
                          ELSE @ \o <<Event("taskFailedWithLog", <<>>, code, wk.full_log)>>,
               !.i = @ + 1,
               !.pc = "for"]

\* 'overall_return_code = return_code' left out
ExitedKeepsZero(wk, code) ==
    IF code = 0
    THEN [wk EXCEPT !.events = IF wk.data_receivers
                                THEN @ \o <<Event("taskData", <<>>, 0, wk.raw_output)>>
                                ELSE @,
                    !.i = @ + 1,
                    !.pc = "for"]
    ELSE [wk EXCEPT !.events = @ \o <<Event("taskFailedWithLog", <<>>, code, wk.full_log)>>,
                    !.pc = "finish"]

\* lines 173-184: the exit status decides
Exited(wk, code) ==
    IF code = 0
    THEN [wk EXCEPT !.events = IF wk.data_receivers
                                THEN @ \o <<Event("taskData", <<>>, 0, wk.raw_output)>>
                                ELSE @,
                    !.i = @ + 1,
                    !.pc = "for"]
    ELSE [wk EXCEPT !.overall_return_code = code,
                    !.events = @ \o <<Event("taskFailedWithLog", <<>>, code, wk.full_log)>>,
                    !.pc = "finish"]

\* wait() raises TimeoutExpired also when self.timeout is None
WaitAlwaysBounded(w) ==
    /\ worker[w].pc = "wait"
    /\ \/ /\ worker[w].process = "exited"
          /\ worker' = [worker EXCEPT ![w] = Exited(@, worker[w].returncode)]
       \/ /\ worker[w].process = "closed"
          /\ \E code \in ExitCodes :
               worker' = [worker EXCEPT ![w] =
                   Exited([@ EXCEPT !.process = "exited", !.returncode = code], code)]
       \/ /\ worker[w].process = "terminated"
          /\ worker' = [worker EXCEPT ![w] = Exited([@ EXCEPT !.returncode = -15], -15)]
       \/ /\ worker[w].process = "closed"
          /\ worker' = [worker EXCEPT ![w] =
                   Failed([@ EXCEPT !.process = "killed"], TimeoutLine)]
    /\ UNCHANGED <<runner_worker, created, stop_pc, queue, progress_widgets,
                   task_finished_seen, lines_left>>
    /\ UNCHANGED <<tab, settings, login>>

\* lines 170-193: stdout.close(), wait(timeout): the child has exited, exits
\* in time, was terminated by stop() (exit status -15), or the wait times out
\* and the child is killed
Wait(w) ==
    /\ worker[w].pc = "wait"
    /\ \/ /\ worker[w].process = "exited"
          /\ worker' = [worker EXCEPT ![w] = Exited(@, worker[w].returncode)]
       \/ /\ worker[w].process = "closed"
          /\ \E code \in ExitCodes :
               worker' = [worker EXCEPT ![w] =
                   Exited([@ EXCEPT !.process = "exited", !.returncode = code], code)]
       \/ /\ worker[w].process = "terminated"
          /\ worker' = [worker EXCEPT ![w] = Exited([@ EXCEPT !.returncode = -15], -15)]
       \/ /\ worker[w].process = "closed"
          /\ worker[w].timeout # None
          /\ worker' = [worker EXCEPT ![w] =
                   Failed([@ EXCEPT !.process = "killed"], TimeoutLine)]
    /\ UNCHANGED <<runner_worker, created, stop_pc, queue, progress_widgets,
                   task_finished_seen, lines_left>>
    /\ UNCHANGED <<tab, settings, login>>

\* the except clauses return instead of break: no taskFinished after a raise
EmitTaskFinishedUnlessRaised(w) ==
    /\ worker[w].pc = "finish"
    /\ LET evs == IF worker[w].overall_return_code = -1 THEN <<>>
                  ELSE <<Event("taskFinished", <<>>, worker[w].overall_return_code, <<>>)>>
       IN /\ worker' = [worker EXCEPT ![w].events = @ \o evs, ![w].pc = "returned"]
          /\ queue' = Enqueue(w, evs)
    /\ UNCHANGED <<runner_worker, created, stop_pc, progress_widgets,
                   task_finished_seen, lines_left>>
    /\ UNCHANGED <<tab, settings, login>>

\* line 209
EmitTaskFinished(w) ==
    /\ worker[w].pc = "finish"
    /\ LET evs == <<Event("taskFinished", <<>>, worker[w].overall_return_code, <<>>)>>
       IN /\ worker' = [worker EXCEPT ![w].events = @ \o evs, ![w].pc = "returned"]
          /\ queue' = Enqueue(w, evs)
    /\ UNCHANGED <<runner_worker, created, stop_pc, progress_widgets,
                   task_finished_seen, lines_left>>
    /\ UNCHANGED <<tab, settings, login>>

\* run() has returned: the QThread finishes and isRunning() becomes false
ThreadFinish(w) ==
    /\ worker[w].pc = "returned"
    /\ worker[w].thread = "running"
    /\ worker' = [worker EXCEPT ![w].thread = "finished"]
    /\ UNCHANGED <<runner_worker, created, stop_pc, queue, progress_widgets,
                   task_finished_seen, lines_left>>
    /\ UNCHANGED <<tab, settings, login>>

\* ------------------------------------------------------------ DownloadTab slots
\* add_download_progress_widget
AddWidget(widgets, id) == widgets \cup {id}

\* update_download_progress: a missing widget is created
UpdateWidget(widgets, id) ==
    IF id \in widgets THEN widgets ELSE AddWidget(widgets, id)

\* remove_download_progress_widget
RemoveWidget(widgets, id) == widgets \ {id}

\* the main thread runs the slot of the oldest queued signal
Deliver ==
    /\ stop_pc = None
    /\ queue # <<>>
    /\ LET w == Head(queue).w
           e == Head(queue).ev
       IN /\ progress_widgets' =
                CASE e.sig = "downloadStarted" -> AddWidget(progress_widgets, e.id)
                  [] e.sig = "downloadProgress" -> UpdateWidget(progress_widgets, e.id)
                  [] e.sig = "downloadFinished" -> RemoveWidget(progress_widgets, e.id)
                  [] OTHER -> progress_widgets
          /\ worker' = [worker EXCEPT ![w].finished_seen =
                          IF e.sig = "downloadFinished" THEN @ \cup {e.id} ELSE @]
          /\ task_finished_seen' =
                IF e.sig = "taskFinished" THEN task_finished_seen \cup {w}
                ELSE task_finished_seen
    /\ queue' = Tail(queue)
    /\ UNCHANGED <<runner_worker, created, stop_pc, lines_left>>
    /\ UNCHANGED <<tab, settings, login>>

\* ------------------------------------------------------------ LoginWorker
\* every variable but login
others == <<runner_worker, created, worker, stop_pc, queue, progress_widgets,
            task_finished_seen, lines_left, tab, settings>>

LoginModes == {"code", "qr", "other"}
Platforms == {"win32", "linux"}
ExitStatuses == {0, 1}

LoginEmit(l, sig) == [l EXCEPT !.events = Append(@, sig)]

\* lines 45-56: the platform test at the head of run()
LoginRun ==
    /\ login.pc = "idle"
    /\ login' = IF login.platform # "win32"
                THEN [LoginEmit(login, "login_failed") EXCEPT !.pc = "returned"]
                ELSE [login EXCEPT !.pc = "spawn"]
    /\ UNCHANGED others

\* lines 58-75 and 92-93: spawn (which may raise) and the choice of the reader
LoginSpawn ==
    /\ login.pc = "spawn"
    /\ \/ login' = [LoginEmit(login, "login_failed") EXCEPT !.pc = "returned"]
       \/ login' =
            IF login.mode \in {"code", "qr"}
            THEN [login EXCEPT !.pty_process = "alive", !.reader = "test", !.pc = "join"]
            ELSE [LoginEmit(login, "login_failed") EXCEPT
                    !.pty_process = "alive", !.pc = "returned"]
    /\ UNCHANGED others

\* the login process ends by itself, with any exit status
LoginProcessExit ==
    /\ login.pty_process = "alive"
    /\ \E st \in ExitStatuses :
         login' = [login EXCEPT !.pty_process = "exited", !.exitstatus = st]
    /\ UNCHANGED others

\* lines 100 and 159: the loop test of either reader
ReaderTest ==
    /\ login.reader = "test"
    /\ login' = [login EXCEPT !.reader =
                    IF login.pty_process = "alive" /\ ~login.is_stopped
                    THEN "read" ELSE "done"]
    /\ UNCHANGED others

\* lines 147-151: a line with "login successfully!" ends the reader
ReadSuccess(l) ==
    IF ~l.login_success_emitted
    THEN [LoginEmit(l, "login_success") EXCEPT
            !.login_success_emitted = TRUE, !.reader = "done", !.reads = @ + 1]
    ELSE [l EXCEPT !.reader = "done", !.reads = @ + 1]

\* lines 101-153: one read of _read_pty_output and what it completes: nothing,
\* a prompt, the "sending code..." line, the success line, or end of file
ReadPtyOutput ==
    /\ login.reader = "read"
    /\ login.mode = "code"
    /\ \/ /\ login.reads < MaxReads
          /\ \/ login' = [login EXCEPT !.reader = "test", !.reads = @ + 1]
             \/ login' = [LoginEmit(login, "prompt_for_input") EXCEPT
                             !.reader = "test", !.reads = @ + 1]
             \/ login' = [LoginEmit(login, "status_update") EXCEPT
                             !.reader = "test", !.reads = @ + 1]
             \/ login' = ReadSuccess(login)
       \/ /\ login.pty_process = "exited"
          /\ login' = [login EXCEPT !.reader = "done"]
    /\ UNCHANGED others

\* lines 160-168: one read of _read_pty_output_for_qr
ReadPtyOutputForQr ==
    /\ login.reader = "read"
    /\ login.mode = "qr"
    /\ \/ /\ login.reads < MaxReads
          /\ \E completes \in BOOLEAN :
               LET seen == login.scan_seen \/ completes
                   l == [login EXCEPT !.scan_seen = seen, !.reader = "test",
                                      !.reads = @ + 1]
               IN login' = IF seen THEN LoginEmit(l, "qr_code_ready") ELSE l
       \/ /\ login.pty_process = "exited"
          /\ login' = [login EXCEPT !.reader = "done"]
    /\ UNCHANGED others

\* lines 77-81: join returns when the reader is done; wait returns when the
\* process has exited
LoginJoinWait ==
    /\ login.pc = "join"
    /\ login.reader = "done"
    /\ login.pty_process = "exited"
    /\ login' = [login EXCEPT !.pc = "check"]
    /\ UNCHANGED others

\* lines 83-90: the exit status
LoginCheck ==
    /\ login.pc = "check"
    /\ login' =
         IF login.exitstatus = 0 /\ ~login.login_success_emitted
         THEN [LoginEmit(login, "login_success") EXCEPT
                 !.login_success_emitted = TRUE, !.pc = "returned"]
         ELSE IF ~login.is_stopped /\ login.exitstatus # 0
         THEN [LoginEmit(login, "login_failed") EXCEPT !.pc = "returned"]
         ELSE [login EXCEPT !.pc = "returned"]
    /\ UNCHANGED others

\* lines 170-177: send_input from the dialog; the write may raise
LoginSendInput ==
    /\ login.inputs < MaxInputs
    /\ \/ /\ login.pty_process # "alive"
          /\ login' = [login EXCEPT !.inputs = @ + 1]
       \/ /\ login.pty_process = "alive"
          /\ \/ login' = [login EXCEPT !.inputs = @ + 1]
             \/ login' = [LoginEmit(login, "login_failed") EXCEPT !.inputs = @ + 1]
    /\ UNCHANGED others

\* lines 179-187: stop() from the dialog; terminate ends the process or raises
LoginStop ==
    /\ ~login.is_stopped
    /\ \/ /\ login.pty_process # "alive"
          /\ login' = [login EXCEPT !.is_stopped = TRUE]
       \/ /\ login.pty_process = "alive"
          /\ \/ login' = [login EXCEPT !.is_stopped = TRUE]
             \/ \E st \in ExitStatuses :
                  login' = [login EXCEPT !.is_stopped = TRUE,
                                         !.pty_process = "exited", !.exitstatus = st]
    /\ UNCHANGED others

\* ------------------------------------------------------------ specifications
\* one step of the thread of Worker w through run()
RunStep(w) ==
    \/ ForHead(w)
    \/ Popen(w)
    \/ ReadLine(w)
    \/ ProcessLine(w)
    \/ AfterLoop(w)
    \/ Wait(w)
    \/ EmitTaskFinished(w)
    \/ ThreadFinish(w)

\* the application: a TdlRunner, the DownloadTab and the Workers the runner makes
Next ==
    \/ RunnerRun
    \/ HandleDownloadButton
    \/ RunnerStop
    \/ StopTerminate
    \/ Deliver
    \/ \E w \in Workers : WorkerStart(w) \/ RunStep(w)

Spec == Init /\ [][Next]_vars

\* one Run.  Either a Worker constructed directly with a list of n commands, as
\* the tests and main_window.py do, not yet started (a slot is connected to
\* taskData or not; a list of several commands always has one, so that the
\* success of each command shows in the signals); or the Worker that
\* DownloadTab.handle_download_button has just obtained from the runner,
\* connected to its slots and started
InitWorker ==
    /\ tab = TabInit
    /\ settings = DefaultSettings
    /\ login = LoginWorkerInit("code", "win32")
    /\ created = 1
    /\ \/ /\ runner_worker = None
          /\ \E n \in 1..MaxCommands, data \in BOOLEAN :
               /\ n > 1 => data
               /\ worker = [w \in Workers |->
                             IF w = 1
                             THEN WorkerInit([k \in 1..n |-> RunnerCommand], FALSE, data)
                             ELSE NoWorker]
       \/ /\ runner_worker = 1
          /\ worker = [w \in Workers |->
                         IF w = 1
                         THEN [WorkerInit(<<RunnerCommand>>, TRUE, FALSE) EXCEPT
                                 !.thread = "running", !.pc = "for"]
                         ELSE NoWorker]
    /\ stop_pc = None
    /\ queue = <<>>
    /\ progress_widgets = {}
    /\ task_finished_seen = {}
    /\ lines_left = MaxLines

NextWorker ==
    \/ StopTerminate
    \/ Deliver
    \/ \E w \in Workers : WorkerStart(w) \/ WorkerStop(w) \/ RunStep(w)

SpecWorker == InitWorker /\ [][NextWorker]_vars

\* a step of the thread of Worker w that does not wait for a child that is
\* running: readline returns only when the child prints, closes its output or
\* exits, all other statements of run() complete on their own (wait() by the
\* timeout at the latest)
Forced(w) ==
    /\ ~(worker[w].pc = "readline" /\ worker[w].process = "running")
    /\ RunStep(w)

\* one Run under the scheduling the code has: the main thread completes a
\* stop() it has entered, the Worker's thread keeps running, and a child that
\* was sent terminate closes its output and exits
SpecWorkerFair ==
    /\ InitWorker
    /\ [][NextWorker]_vars
    /\ WF_vars(StopTerminate)
    /\ \A w \in Workers : WF_vars(Forced(w))

\* the DownloadTab with its owner: the two buttons, set_running_state, and the
\* Workers the tab starts; the widgets do not depend on what a child prints,
\* and the children here print nothing
InitTab ==
    /\ tab = TabInit
    /\ settings = DefaultSettings
    /\ login = LoginWorkerInit("code", "win32")
    /\ runner_worker = None
    /\ created = 0
    /\ worker = [w \in Workers |-> NoWorker]
    /\ stop_pc = None
    /\ queue = <<>>
    /\ progress_widgets = {}
    /\ task_finished_seen = {}
    /\ lines_left = 0

NextTab ==
    \/ HandleDownloadButton
    \/ HandleResumeButton
    \/ SetRunningState
    \/ StopTerminate
    \/ Deliver
    \/ \E w \in Workers :
         \/ ForHead(w)
         \/ Popen(w)
         \/ ReadLine(w)
         \/ AfterLoop(w)
         \/ Wait(w)
         \/ EmitTaskFinished(w)
         \/ ThreadFinish(w)

SpecTab == InitTab /\ [][NextTab]_vars

\* the values of the settings, and of the system proxy, a TdlRunner may find
SettingsValues ==
    [ debug_mode : BOOLEAN,
      auto_proxy : BOOLEAN,
      system_proxy : {"", "http://sys:1"},
      manual_proxy : {"", "http://man:2"},
      storage_driver : {"bolt", "file"},
      storage_path : {"", " ", "/p", " /p "},
      namespace : {"default", "", "work"},
      ntp_server : {"", "pool.ntp.org"},
      reconnect_timeout : {"5m", "0s", "", "30s"} ]

\* the runner under every value of the settings: callers obtain Workers from
\* TdlRunner.run and start them
InitRunner ==
    /\ tab = TabInit
    /\ settings \in SettingsValues
    /\ login = LoginWorkerInit("code", "win32")
    /\ runner_worker = None
    /\ created = 0
    /\ worker = [w \in Workers |-> NoWorker]
    /\ stop_pc = None
    /\ queue = <<>>
    /\ progress_widgets = {}
    /\ task_finished_seen = {}
    /\ lines_left = 0

NextRunner ==
    \/ RunnerRun
    \/ HandleResumeButton
    \/ \E w \in Workers : WorkerStart(w)

SpecRunner == InitRunner /\ [][NextRunner]_vars

\* one Run of one command under each timeout argument a caller may pass
InitTimed ==
    /\ tab = TabInit
    /\ settings = DefaultSettings
    /\ login = LoginWorkerInit("code", "win32")
    /\ created = 1
    /\ \E t \in Timeouts, conn \in BOOLEAN :
         /\ runner_worker = IF conn THEN 1 ELSE None
         /\ worker = [w \in Workers |->
                        IF w = 1
                        THEN [WorkerInit(<<RunnerCommand>>, conn, FALSE) EXCEPT
                                !.timeout = Timeout(t),
                                !.thread = IF conn THEN "running" ELSE "new",
                                !.pc = IF conn THEN "for" ELSE "idle"]
                        ELSE NoWorker]
    /\ stop_pc = None
    /\ queue = <<>>
    /\ progress_widgets = {}
    /\ task_finished_seen = {}
    /\ lines_left = MaxLines

SpecTimed == InitTimed /\ [][NextWorker]_vars

\* the classifier on its own: a Worker in the read loop of its only command
\* that has just read one line of ClassifyLines and may read one more
InitClassify ==
    /\ tab = TabInit
    /\ settings = DefaultSettings
    /\ login = LoginWorkerInit("code", "win32")
    /\ created = 1
    /\ runner_worker = None
    /\ \E line \in ClassifyLines :
         worker = [w \in Workers |->
                     IF w = 1
                     THEN [WorkerInit(<<RunnerCommand>>, FALSE, FALSE) EXCEPT
                             !.thread = "running", !.process = "running",
                             !.full_log = <<TaskIntro(1)>>,
                             !.raw_line = line, !.pc = "process"]
                     ELSE NoWorker]
    /\ stop_pc = None
    /\ queue = <<>>
    /\ progress_widgets = {}
    /\ task_finished_seen = {}
    /\ lines_left = 1

NextClassify == \E w \in Workers : ReadLine(w) \/ ProcessLine(w)

SpecClassify == InitClassify /\ [][NextClassify]_vars

\* one LoginWorker, of any mode on any platform, with the dialog's stop() and
\* send_input() and the login process's exit at any point
InitLogin ==
    /\ tab = TabInit
    /\ settings = DefaultSettings
    /\ \E mode \in LoginModes, platform \in Platforms :
         login = LoginWorkerInit(mode, platform)
    /\ runner_worker = None
    /\ created = 0
    /\ worker = [w \in Workers |-> NoWorker]
    /\ stop_pc = None
    /\ queue = <<>>
    /\ progress_widgets = {}
    /\ task_finished_seen = {}
    /\ lines_left = 0

NextLogin ==
    \/ LoginRun
    \/ LoginSpawn
    \/ LoginProcessExit
    \/ ReaderTest
    \/ ReadPtyOutput
    \/ ReadPtyOutputForQr
    \/ LoginJoinWait
    \/ LoginCheck
    \/ LoginSendInput
    \/ LoginStop

SpecLogin == InitLogin /\ [][NextLogin]_vars

\* ------------------------------------------------------------ properties
\* indexes of the signals of kind sig (for file id, when id # <<>>) Worker w emitted
Emitted(w, sig) == {k \in 1..Len(worker[w].events) : worker[w].events[k].sig = sig}
EmittedFor(w, sig, id) == {k \in Emitted(w, sig) : worker[w].events[k].id = id}

\* run() of Worker w has returned
Returned(w) == worker[w].pc = "returned"

\* the Workers constructed so far
Constructed == 1..created

\* the ids the child output can name
LineIds == {SubSeq(line, 1, DoneEllipsis(line) - 1) : line \in {l \in OutputLines : TDL_DONE_RE(l)}}
            \cup {SubSeq(line, 1, ProgressEllipsis(line) - 1) :
                    line \in {l \in OutputLines : TDL_IN_PROGRESS_RE(l)}}

\* C1: within one run of a Worker, every downloadFinished(id) is preceded by
\* exactly one downloadStarted(id), and downloadStarted(id) is never emitted
\* twice, also when the first line naming id is a completion line.
C1_FinishedAfterOneStarted ==
    \A w \in Constructed : \A id \in LineIds :
        LET started == EmittedFor(w, "downloadStarted", id)
        IN /\ Cardinality(started) <= 1
           /\ \A k \in EmittedFor(w, "downloadFinished", id) :
                Cardinality({j \in started : j < k}) = 1

\* a Worker whose first classified line was a completion line and that has
\* emitted a second downloadFinished for the same id
C1_Witness ==
    \E w \in Workers :
        /\ Len(worker[w].classified) >= 2
        /\ TDL_DONE_RE(worker[w].classified[1])
        /\ Cardinality(EmittedFor(w, "downloadFinished", << <<"A">> >>)) = 2

\* the success signal of a run is taskFinished carrying 0, the failure signal
\* is taskFailedWithLog
IsSuccess(e) == e.sig = "taskFinished" /\ e.code = 0
IsFailure(e) == e.sig = "taskFailedWithLog"
Terminal(w) ==
    {k \in 1..Len(worker[w].events) :
        IsSuccess(worker[w].events[k]) \/ IsFailure(worker[w].events[k])}

\* C2 as stated: exactly one of {success, failure} fires per run, once, and no
\* signal of any kind (taskFinished included) is emitted after it.
C2_NothingAfterTerminal ==
    \A w \in Workers :
        /\ Cardinality(Terminal(w)) <= 1
        /\ \A k \in Terminal(w) : k = Len(worker[w].events)
        /\ Returned(w) => Cardinality(Terminal(w)) = 1

\* C2 as amended: exactly one of {taskFinished(0), taskFailedWithLog} fires per
\* run, once; taskFinished fires exactly once and is the last signal of the run;
\* taskFailedWithLog is followed by that closing taskFinished only, which then
\* carries a non-zero code.
C2_TaskFinishedClosesTheRun ==
    \A w \in Constructed :
        LET finished == Emitted(w, "taskFinished")
            terminal == Cardinality(Terminal(w))
        IN /\ Cardinality(finished) <= 1
           /\ \A k \in finished : k = Len(worker[w].events)
           /\ Returned(w) <=> finished # {}
           /\ terminal <= 1
           /\ Returned(w) => terminal = 1
           /\ \A k \in Emitted(w, "taskFailedWithLog") :
                \A j \in (k + 1)..Len(worker[w].events) :
                   /\ worker[w].events[j].sig = "taskFinished"
                   /\ worker[w].events[j].code # 0

\* a run that ended with taskFailedWithLog(2) followed by taskFinished(2)
C2_Witness ==
    \E w \in Workers :
        /\ Returned(w)
        /\ Len(worker[w].events) >= 2
        /\ LET n == Len(worker[w].events)
           IN /\ worker[w].events[n - 1].sig = "taskFailedWithLog"
              /\ worker[w].events[n - 1].code = 2
              /\ worker[w].events[n].sig = "taskFinished"
              /\ worker[w].events[n].code = 2

\* C3: a run whose stop() was requested while it was reading the child's
\* output emits neither the success signal (taskFinished(0), taskData) nor the
\* failure signal (taskFailedWithLog).
C3_CancelledIsNeitherSuccessNorFailure ==
    \A w \in Workers :
        (worker[w].stop_at \in {"readline", "process"} /\ Returned(w)) =>
            \A k \in 1..Len(worker[w].events) :
                /\ ~IsSuccess(worker[w].events[k])
                /\ ~IsFailure(worker[w].events[k])
                /\ worker[w].events[k].sig # "taskData"

\* the classified signals emitted after _is_stopped was set
LateEvents(w) ==
    {k \in 1..Len(worker[w].events) :
        /\ k > worker[w].stop_mark
        /\ worker[w].events[k].sig \in ClassifiedSignals}

\* C4 as stated: once _is_stopped is set, no classified signal is emitted, for
\* every interleaving of stop() with the thread.
C4_NoClassifiedEventAfterStop ==
    \A w \in Workers : worker[w].is_stopped => LateEvents(w) = {}

\* C4 as amended: once _is_stopped is set, the only line still classified is the
\* one that had already passed the flag test of line 88 when the flag was set;
\* every classified signal emitted after the flag was set comes from that line.
C4_OnlyTheLineInFlight ==
    \A w \in Constructed :
        worker[w].is_stopped =>
            LET late == LateEvents(w)
            IN /\ worker[w].late_lines <= 1
               /\ worker[w].late_lines = 1 => worker[w].stop_at = "process"
               /\ late # {} => worker[w].late_lines = 1
               /\ Cardinality(late) <= 3

\* stop() came while a line was in flight, that line emitted signals, the run
\* has returned and the child had more lines to print
C4_Witness ==
    \E w \in Workers :
        /\ worker[w].is_stopped
        /\ LateEvents(w) # {}
        /\ Returned(w)
        /\ lines_left > 0

\* C5: whenever run() has returned (and no stop() call is still in progress),
\* the child the Worker spawned is not running.
C5_NoChildLeftRunning ==
    \A w \in Workers :
        (Returned(w) /\ stop_pc # w) => worker[w].process \notin {"running", "closed"}

\* C6: at most one Run is active per TdlRunner: two Workers obtained from the
\* same runner never have their threads running with a live child at the same
\* time, for every sequence of run(), start() and stop() calls.
C6_AtMostOneRunActive ==
    Cardinality({w \in Workers : /\ worker[w].thread = "running"
                                 /\ worker[w].process = "running"}) <= 1

\* C7: in every state where a subscriber has received the taskFinished of the
\* runner's current Worker, is_running() is false (so run() is accepted).
C7_SlotReleasedOnDelivery ==
    \A w \in task_finished_seen : runner_worker = w => ~is_running

\* C8: after DownloadTab has handled downloadFinished(id), id is never again a
\* key of progress_widgets during that Run.
C8_DoneNeverReenters ==
    \A w \in Workers : \A id \in worker[w].finished_seen : id \notin progress_widgets

\* for each line the Run of Worker w has classified: the file id of the line
\* when it is a completion line, <<>> otherwise
DoneIds(w) ==
    [k \in 1..Len(worker[w].classified) |->
        LET d == DoneEllipsis(worker[w].classified[k])
        IN IF d = 0 THEN <<>> ELSE SubSeq(worker[w].classified[k], 1, d - 1)]

\* C9: a Run that was fed n completion lines for id has emitted exactly n
\* downloadFinished(id) and, when n >= 1, exactly one downloadStarted(id).
C9_FinishedPerCompletionLine ==
    \A w \in Constructed :
        LET ids == DoneIds(w)
        IN \A id \in LineIds :
             LET n == Cardinality({k \in DOMAIN ids : ids[k] = id})
             IN /\ Cardinality(EmittedFor(w, "downloadFinished", id)) = n
                /\ n >= 1 => Cardinality(EmittedFor(w, "downloadStarted", id)) = 1

\* the same completion line fed twice: two downloadFinished, one downloadStarted
C9_Witness ==
    \E w \in Workers :
        /\ worker[w].classified = <<DoneLine(<<"A">>), DoneLine(<<"A">>)>>
        /\ DoneIds(w) = << << <<"A">> >>, << <<"A">> >> >>
        /\ Cardinality(EmittedFor(w, "downloadFinished", << <<"A">> >>)) = 2
        /\ Cardinality(EmittedFor(w, "downloadStarted", << <<"A">> >>)) = 1

\* the success signals of a Run: taskFinished carrying 0, or taskData
SuccessSignals(w) ==
    {k \in 1..Len(worker[w].events) :
        IsSuccess(worker[w].events[k]) \/ worker[w].events[k].sig = "taskData"}

\* Popen raised: no child, and the log ends with the line of the handler
SpawnFailed(w) ==
    /\ worker[w].process = "none"
    /\ Len(worker[w].full_log) >= 1
    /\ worker[w].full_log[Len(worker[w].full_log)] \in {NotFoundLine, UnexpectedLine}

\* C10: in a Run of one command that has returned, a failure signal excludes
\* every success signal, a child that exited non-zero, was not spawned or was
\* killed on timeout gives the failure signal, and a success signal is emitted
\* only when the child exited with code 0.
C10_SuccessOnlyOnExitZero ==
    \A w \in Workers :
        (Returned(w) /\ Len(worker[w].commands) = 1) =>
            /\ Emitted(w, "taskFailedWithLog") # {} => SuccessSignals(w) = {}
            /\ (\/ SpawnFailed(w)
                \/ worker[w].process = "killed"
                \/ worker[w].process = "exited" /\ worker[w].returncode # 0)
                 => Emitted(w, "taskFailedWithLog") # {}
            /\ SuccessSignals(w) # {} =>
                 worker[w].process = "exited" /\ worker[w].returncode = 0

\* C11: classification never fails the Run: in a Run of one command a failure
\* signal is emitted only for a fault of the child itself (it was not spawned,
\* it was killed on timeout, it exited or was terminated), never because of the
\* text of a line.
C11_ClassificationNeverFails ==
    \A w \in Constructed :
        (Len(worker[w].commands) = 1 /\ Emitted(w, "taskFailedWithLog") # {}) =>
            \/ SpawnFailed(w)
            \/ worker[w].process \in {"killed", "exited", "terminated"}

\* the grammar that classifies a line: the four searches in the order of the
\* read loop, the first that matches
Category(line) ==
    IF line = <<>> THEN "blank"
    ELSE IF DoneEllipsis(line) # 0 THEN "done"
    ELSE IF ProgressEllipsis(line) # 0 THEN "progress"
    ELSE IF TDL_OVERALL_RE(line) THEN "overall"
    ELSE IF TDL_STATS_RE(line) THEN "stats"
    ELSE "plain"

\* the file_id group of a completion or progress line
LineId(line) ==
    IF DoneEllipsis(line) # 0 THEN SubSeq(line, 1, DoneEllipsis(line) - 1)
    ELSE IF ProgressEllipsis(line) # 0 THEN SubSeq(line, 1, ProgressEllipsis(line) - 1)
    ELSE <<>>

\* C12: a progress-shaped line without the ETA field still gives a
\* downloadProgress for its id with its percent.
C12_ProgressWithoutEta ==
    \A w \in Constructed :
        (Len(worker[w].classified) >= 1 /\ worker[w].classified[1] = NoEtaLine(<<"A">>)) =>
            \E k \in Emitted(w, "downloadProgress") :
                /\ worker[w].events[k].id = << <<"A">> >>
                /\ worker[w].events[k].code = 50

\* C14: an aggregate line with f filled and e empty markers gives an
\* overallProgress whose percent is the truncation of 100*f/(f+e), within 0..100.
C14_PercentIsTruncation ==
    \A w \in Constructed :
        (Len(worker[w].classified) >= 1 /\ Category(worker[w].classified[1]) = "overall") =>
            LET bar == Inner(worker[w].classified[1][1])
                f == Cardinality(Positions(bar, "#"))
                e == Cardinality(Positions(bar, "."))
            IN /\ worker[w].events[1].sig = "overallProgress"
               /\ worker[w].events[1].code = (100 * f) \div (f + e)
               /\ worker[w].events[1].code \in 0..100

\* C15: an aggregate-shaped line whose bar is empty gives an overallProgress
\* with percent 0.
C15_EmptyBarGivesZero ==
    \A w \in Constructed :
        (Len(worker[w].classified) >= 1 /\ worker[w].classified[1] = BarLine(0, 0)) =>
            /\ Len(worker[w].events) >= 1
            /\ worker[w].events[1].sig = "overallProgress"
            /\ worker[w].events[1].code = 0

\* the signals other than downloadStarted, as <<signal, file id>>
NotStarted(e) == e.sig # "downloadStarted"
SignalKinds(w) ==
    LET sel == SelectSeq(worker[w].events, NotStarted)
    IN [k \in 1..Len(sel) |-> <<sel[k].sig, sel[k].id>>]

\* the signals (other than downloadStarted) of one line, by its category alone
Kinds(line) ==
    CASE Category(line) = "done" ->
             << <<"downloadProgress", LineId(line)>>, <<"downloadFinished", LineId(line)>> >>
      [] Category(line) = "progress" ->
             IF FloatParses(SubSeq(line[ProgressEllipsis(line) + 1], 1,
                                   Len(line[ProgressEllipsis(line) + 1]) - 1))
             THEN << <<"downloadProgress", LineId(line)>> >>
             ELSE << <<"taskFailedWithLog", <<>> >> >>
      [] Category(line) = "overall" -> << <<"overallProgress", <<>> >> >>
      [] Category(line) = "stats" -> << <<"statsUpdated", <<>> >> >>
      [] OTHER -> <<>>

RECURSIVE Expected(_)
Expected(lines) ==
    IF lines = <<>> THEN <<>>
    ELSE Expected(SubSeq(lines, 1, Len(lines) - 1)) \o Kinds(lines[Len(lines)])

\* C13: every line is classified by the first grammar that matches in the order
\* completion, progress, aggregate, stats, plain text, and gives the signals of
\* that grammar only, whatever lines came before it: the signals of a Run
\* (downloadStarted aside) are those of its lines' categories, in order.
C13_FirstMatchWins ==
    \A w \in Constructed : SignalKinds(w) = Expected(worker[w].classified)

\* a line that is both a progress and a completion line, classified as a
\* completion, followed by a second classified line
C13_Witness ==
    \E w \in Constructed :
        /\ Len(worker[w].classified) = 2
        /\ worker[w].classified[1] = ProgressLine(<<"A">>) \o DoneLine(<<"B">>)
        /\ TDL_IN_PROGRESS_RE(worker[w].classified[1])
        /\ Emitted(w, "downloadFinished") # {}
        /\ worker[w].pc = "readline"

\* the failure signals that carry the exit status of a child
ExitFailures(w) ==
    {k \in Emitted(w, "taskFailedWithLog") : worker[w].events[k].code # -1}

\* s is the end of t
IsSuffix(s, t) ==
    /\ Len(s) <= Len(t)
    /\ SubSeq(t, Len(t) - Len(s) + 1, Len(t)) = s

\* C16 as stated: the failure signal of a child that exited non-zero carries the
\* exit code and a log that contains every line seen during the Run, in read
\* order.
C16_LogHasEveryLineOfTheRun ==
    \A w \in Constructed : \A k \in ExitFailures(w) :
        /\ worker[w].events[k].code = worker[w].returncode
        /\ IsSuffix(worker[w].classified, worker[w].events[k].log)

\* C16 as amended: when a child exits non-zero, one failure signal is emitted
\* with that exit code and the log of the failed command: its intro line, then
\* every non-blank line read from this child, in read order (the lines of the
\* commands before it are not in it); nothing more is read or classified and no
\* later command is spawned: only the closing taskFinished follows.
C16_FailureCarriesCommandLog ==
    \A w \in Constructed :
        LET failures == ExitFailures(w)
        IN /\ failures # {} => Cardinality(Emitted(w, "taskFailedWithLog")) = 1
           /\ \A k \in failures :
                /\ worker[w].events[k].code = worker[w].returncode
                /\ worker[w].events[k].code # 0
                /\ worker[w].events[k].log =
                       <<TaskIntro(worker[w].i)>> \o worker[w].raw_output
                /\ IsSuffix(worker[w].raw_output, worker[w].classified)
                /\ worker[w].pc \in {"finish", "returned"}
                /\ worker[w].i <= Len(worker[w].commands)
                /\ k >= Len(worker[w].events) - 1

\* the second of several commands printed a line and exited non-zero after the
\* first one had printed a line and succeeded
C16_Witness ==
    \E w \in Constructed :
        /\ ExitFailures(w) # {}
        /\ worker[w].i = 2
        /\ Len(worker[w].commands) > 2 \/ Len(worker[w].commands) = 2
        /\ Len(worker[w].classified) = 2
        /\ Len(worker[w].raw_output) = 1
        /\ Returned(w)

\* scenario B: the one command of Worker w printed the plain line
\* "panic: invalid expression" and nothing else, its child exited with code 2
\* and run() has returned
ScenarioB(w) ==
    /\ Len(worker[w].commands) = 1
    /\ worker[w].classified = <<PlainLine>>
    /\ worker[w].returncode = 2
    /\ ExitFailures(w) # {}
    /\ Returned(w)

\* C17 as stated: in scenario B the failure signal carries code 2 and a log that
\* is exactly the text of the line the child printed.
C17_FailureLogIsTheLine ==
    \A w \in Constructed :
        ScenarioB(w) =>
            \E k \in ExitFailures(w) :
                /\ worker[w].events[k].code = 2
                /\ worker[w].events[k].log = <<PlainLine>>

\* C17 as amended: in scenario B the signals of the Run are taskFailedWithLog
\* with code 2 and a log of two lines, the intro line of the command and then
\* the line the child printed, followed by the closing taskFinished(2).
C17_FailureLogIsIntroThenLine ==
    \A w \in Constructed :
        ScenarioB(w) =>
            worker[w].events =
                << Event("taskFailedWithLog", <<>>, 2, <<TaskIntro(1), PlainLine>>),
                   Event("taskFinished", <<>>, 2, <<>>) >>

C17_Witness ==
    \E w \in Constructed :
        /\ ScenarioB(w)
        /\ Len(worker[w].events[1].log) = 2

\* scenario A: the one command of Worker w printed a progress line at 50.0%
\* for a file and then the completion line of that file, its child exited with
\* code 0 and run() has returned
ScenarioA(w, id) ==
    /\ Len(worker[w].commands) = 1
    /\ worker[w].classified = <<ProgressLine(id), DoneLine(id)>>
    /\ worker[w].process = "exited"
    /\ worker[w].returncode = 0
    /\ Returned(w)

\* the signals of Worker w other than taskData, in emission order
RECURSIVE Observable(_)
Observable(evs) ==
    IF evs = <<>> THEN <<>>
    ELSE IF Head(evs).sig = "taskData" THEN Observable(Tail(evs))
         ELSE <<Head(evs)>> \o Observable(Tail(evs))

\* C18 as stated: in scenario A the signals are exactly started(X),
\* progress(X, 50.0), finished(X), taskFinished(0), with no other per-file
\* signal in between.
C18_ScenarioAFourEvents ==
    \A w \in Constructed : \A id \in FileIds :
        ScenarioA(w, id) =>
            Observable(worker[w].events) =
                << Event("downloadStarted", <<id>>, 0, <<>>),
                   Event("downloadProgress", <<id>>, 50, <<>>),
                   Event("downloadFinished", <<id>>, 0, <<>>),
                   Event("taskFinished", <<>>, 0, <<>>) >>

\* C18 as amended: in scenario A the signals are exactly started(X),
\* progress(X, 50.0), progress(X, 100), finished(X), taskFinished(0): the
\* completion line emits a progress signal at 100 before finished(X).
C18_ScenarioAFiveEvents ==
    \A w \in Constructed : \A id \in FileIds :
        ScenarioA(w, id) =>
            Observable(worker[w].events) =
                << Event("downloadStarted", <<id>>, 0, <<>>),
                   Event("downloadProgress", <<id>>, 50, <<>>),
                   Event("downloadProgress", <<id>>, 100, <<>>),
                   Event("downloadFinished", <<id>>, 0, <<>>),
                   Event("taskFinished", <<>>, 0, <<>>) >>

C18_Witness ==
    \E w \in Constructed : \E id \in FileIds :
        /\ ScenarioA(w, id)
        /\ Len(Observable(worker[w].events)) = 5
        /\ ~worker[w].is_stopped

\* the signals of Worker w that carry file id, in emission order
EventsOf(w, id) == SelectSeq(worker[w].events, LAMBDA e : e.id = id)

\* the line classified last is a completion line, and no line classified before
\* it names its file id
NewCompletionLast(w) ==
    LET lines == worker[w].classified
        n == Len(lines)
    IN /\ n >= 1
       /\ Category(lines[n]) = "done"
       /\ \A k \in 1..(n - 1) :
            Category(lines[k]) \in {"done", "progress"} => LineId(lines[k]) # LineId(lines[n])

\* C19: a completion line whose id was not seen before in the Run emits exactly
\* one downloadStarted(id), exactly one downloadProgress with that id and
\* percent 100 and exactly one downloadFinished(id), in that order.
C19_NewCompletionLineSignals ==
    \A w \in Constructed :
        NewCompletionLast(w) =>
            LET id == LineId(worker[w].classified[Len(worker[w].classified)])
            IN EventsOf(w, id) = << Event("downloadStarted", id, 0, <<>>),
                                    Event("downloadProgress", id, 100, <<>>),
                                    Event("downloadFinished", id, 0, <<>>) >>

\* a completion line of a new id was classified after a line that names
\* another file
C19_Witness ==
    \E w \in Constructed :
        /\ NewCompletionLast(w)
        /\ Len(worker[w].classified) = 2
        /\ Category(worker[w].classified[1]) \in {"done", "progress"}
        /\ Len(worker[w].events) >= 5

\* C20: for a completion line prefixed by ANSI control sequences, the file id
\* carried by downloadStarted, downloadProgress and downloadFinished is the
\* identifier without any escape character.
C20_AnsiPrefixRemoved ==
    \A w \in Constructed :
        (Len(worker[w].classified) >= 1
            /\ worker[w].classified[1] = AnsiDoneLine(<<"A">>)) =>
            /\ \A sig \in PerFileSignals : EmittedFor(w, sig, << <<"A">> >>) # {}
            /\ \A k \in 1..Len(worker[w].events) :
                 worker[w].events[k].sig \in PerFileSignals =>
                     \A t \in 1..Len(worker[w].events[k].id) :
                         \A c \in 1..Len(worker[w].events[k].id[t]) :
                             worker[w].events[k].id[t][c] \notin {"ESC[A", "ESC[K"}

\* Popen raised FileNotFoundError in the Run of Worker w: the log ends with the
\* line of that handler
NotFound(w) ==
    /\ Len(worker[w].full_log) >= 1
    /\ worker[w].full_log[Len(worker[w].full_log)] = NotFoundLine

TimedOut(w) ==
    /\ Len(worker[w].full_log) >= 1
    /\ worker[w].full_log[Len(worker[w].full_log)] = TimeoutLine

\* C22: when the wait for the child's exit times out the child is killed and
\* exactly one failure signal is emitted, whose log ends with the timeout
\* message; a child is killed on no other path (a stopped Worker's child is at
\* most terminated), and a Worker constructed with a timeout of 0 never times
\* out.
C22_KillOnlyOnTimeout ==
    \A w \in Constructed :
        LET wk == worker[w]
            failures == Emitted(w, "taskFailedWithLog")
        IN /\ TimedOut(w) =>
                /\ wk.process = "killed"
                /\ wk.timeout # None
                /\ Cardinality(failures) = 1
                /\ \A k \in failures :
                     wk.events[k] = Event("taskFailedWithLog", <<>>, -1, wk.full_log)
           /\ wk.process = "killed" => TimedOut(w)
           /\ wk.timeout = None => ~TimedOut(w) /\ wk.process # "killed"

\* the child of a Worker with a timeout printed a line and closed its output,
\* the wait for its exit timed out, and run() has returned
C22_Witness ==
    \E w \in Constructed :
        /\ TimedOut(w)
        /\ worker[w].classified # <<>>
        /\ Returned(w)

\* C23: after any sequence of set_running_state calls the start/stop button is
\* enabled, its text is "Stop Download" exactly when the last call was for
\* 'running' and "Start Download" otherwise, and every other control but the
\* resume button (the source input, the destination input, the advanced
\* options button, ...) is enabled exactly when the last call was for 'not
\* running'.
C23_ControlsFollowRunningState ==
    /\ tab.start_enabled
    /\ tab.start_text = (IF tab.is_running THEN "Stop Download" ELSE "Start Download")
    /\ \A c \in Controls \ {"resume_download_button"} :
         tab.enabled[c] <=> ~tab.is_running

\* set_running_state(True) has been called
C23_Witness ==
    /\ tab.is_running
    /\ tab.start_text = "Stop Download"
    /\ ~tab.enabled["source_input"]

\* C26: the 'Resume Last Download' button is enabled only when a download has
\* been started on the tab and the tab is not in the running state.
C26_ResumeOnlyAfterDownload ==
    tab.enabled["resume_download_button"] =>
        tab.has_started_download /\ ~tab.is_running

\* the global flags in the order of TdlRunner.run, and the base commands of
\* the callers
GlobalFlags == <<"--debug", "--proxy", "--storage", "--ns", "--ntp", "--reconnect-timeout">>
BaseCommands == {<<"download">>, <<"download", "--continue">>}

\* the positions of flag in command cmd
FlagAt(cmd, flag) == {k \in 1..Len(cmd) : cmd[k] = flag}

\* the settings_manager values are all at their defaults
AllDefault ==
    \A f \in DOMAIN DefaultSettings \ {"system_proxy"} : settings[f] = DefaultSettings[f]

Raised(w) ==
    /\ Len(worker[w].full_log) >= 1
    /\ worker[w].full_log[Len(worker[w].full_log)] \in
           {TimeoutLine, NotFoundLine, UnexpectedLine}

\* C25: on every path run() ends by returning, never by an exception: an
\* exception raised by the spawn, the read loop or the wait is handled and
\* leads to line 209; a Run that has returned has emitted taskFinished exactly
\* once, as its last signal, and a Run that has not returned has not emitted
\* it.
C25_TaskFinishedOnEveryPath ==
    \A w \in Constructed :
        LET wk == worker[w]
            n == Len(wk.events)
            finished == Emitted(w, "taskFinished")
        IN /\ wk.thread = "finished" => Returned(w)
           /\ Raised(w) => wk.pc \in {"finish", "returned"}
           /\ Returned(w) =>
                /\ finished = {n}
                /\ wk.events[n].code = wk.overall_return_code
           /\ ~Returned(w) => finished = {}

\* float() raised in the read loop, and run() has returned
C25_Witness ==
    \E w \in Constructed :
        /\ Raised(w)
        /\ worker[w].classified # <<>>
        /\ worker[w].full_log[Len(worker[w].full_log)] = UnexpectedLine
        /\ Returned(w)

\* C27: once stop() has been requested on a started Worker, the Worker's
\* thread eventually finishes (so that is_running() becomes false).
C27_StopLeadsToFinished ==
    \A w \in Workers :
        (worker[w].is_stopped /\ worker[w].thread = "running")
            ~> (worker[w].thread = "finished")

\* C28: the commands of a Worker run one after the other in list order: the
\* k-th child Popen starts is that of command k; when it is started no child
\* of the Worker is alive, every earlier command's child has exited with code
\* 0, no failure has been signalled, and the stop flag, if set at all, was set
\* after the flag test that precedes this very spawn.
C28_CommandsRunInSequence ==
    [][\A w \in Workers :
          worker'[w].spawned # worker[w].spawned =>
              /\ worker[w].spawned = worker[w].i - 1
              /\ worker'[w].spawned = worker[w].i
              /\ worker[w].i <= Len(worker[w].commands)
              /\ worker[w].process \in {"none", "exited"}
              /\ worker[w].i > 1 =>
                     worker[w].process = "exited" /\ worker[w].returncode = 0
              /\ \A k \in 1..Len(worker[w].events) :
                     worker[w].events[k].sig # "taskFailedWithLog"
              /\ worker[w].is_stopped => worker[w].stop_at = "popen"]_vars

\* both commands of a Worker were spawned, and run() has returned
C28_Witness ==
    \E w \in Constructed :
        /\ Len(worker[w].commands) = 2
        /\ worker[w].spawned = 2
        /\ worker[w].classified # <<>>
        /\ Returned(w)

\* the ids for which Worker w has emitted downloadStarted
StartedIds(w) ==
    {worker[w].events[k].id : k \in Emitted(w, "downloadStarted")}

\* C29: no step of a Worker removes an id from seen_files, the start of a
\* later command included; every id whose downloadStarted was emitted is in
\* the set from then on, and a step emits downloadStarted only for an id that
\* was not in the set, so an id started under one command is never started
\* again under a later one.
C29_SeenFilesOnlyGrow ==
    [][\A w \in Workers :
          /\ worker[w].seen_files \subseteq worker'[w].seen_files
          /\ StartedIds(w) \subseteq worker[w].seen_files
          /\ \A k \in (Len(worker[w].events) + 1)..Len(worker'[w].events) :
                worker'[w].events[k].sig = "downloadStarted" =>
                    /\ worker'[w].events[k].id \notin worker[w].seen_files
                    /\ worker'[w].events[k].id \in worker'[w].seen_files]_vars

\* the second command of a Worker has printed a line naming the id that a line
\* of the first command named, and downloadStarted was emitted for it once
C29_Witness ==
    \E w \in Constructed :
        /\ worker[w].i = 2
        /\ Len(worker[w].raw_output) = 1
        /\ Len(worker[w].classified) = 2
        /\ << <<"A">> >> \in worker[w].seen_files
        /\ Cardinality(EmittedFor(w, "downloadFinished", << <<"A">> >>)) = 2
        /\ Cardinality(EmittedFor(w, "downloadStarted", << <<"A">> >>)) = 1

\* the positions of signal sig among the signals of the LoginWorker
LoginEmitted(sig) == {k \in 1..Len(login.events) : login.events[k] = sig}

\* C30: one LoginWorker run never emits both login_success and login_failed:
\* no login_failed follows a login_success, and login_success is emitted at
\* most once.
C30_SuccessExcludesFailure ==
    /\ LoginEmitted("login_success") = {} \/ LoginEmitted("login_failed") = {}
    /\ Cardinality(LoginEmitted("login_success")) <= 1

====
